---- MODULE Spec2Model ----
(***************************************************************************)
(* Model of src/src/lib/patch-langgraph-client.ts: the byte-to-line        *)
(* decoder (BytesLineDecoder), the line-to-event decoder (SafeSSEDecoder)  *)
(* and the patched runs.stream generator that pipes a response body        *)
(* through both and yields the decoded events.                             *)
(*                                                                         *)
(* Bytes are their numeric codes; a Uint8Array is a sequence of codes; a   *)
(* JavaScript string is a sequence of code points.                         *)
(***************************************************************************)
EXTENDS Integers, Sequences, FiniteSets, TLC

\* ------------------------------------------------------------------------
\* Byte constants (lines 4-9 of the source)
\* ------------------------------------------------------------------------
CR == 13
LF == 10
NULL == 0
COLON == 58
SPACE == 32
TRAILING_NEWLINE == {CR, LF}

\* ------------------------------------------------------------------------
\* Bounds of the model
\* ------------------------------------------------------------------------
\* longest byte sequence fed to the line decoder alone
MaxLen == 5
\* number of lines fed to the event decoder alone
MaxLines == 4

\* ------------------------------------------------------------------------
\* Array helpers
\* ------------------------------------------------------------------------
\* text.subarray(from, to) with 0-based from (inclusive) and to (exclusive)
Subarray(text, from, to) == SubSeq(text, from + 1, to)

\* text.at(-1); only used on non-empty arrays
AtLast(text) == text[Len(text)]

RECURSIVE joinArrays(_)
joinArrays(arrs) ==
  IF arrs = <<>> THEN <<>> ELSE Head(arrs) \o joinArrays(Tail(arrs))

\* all sequences over S of length at most n
RECURSIVE SeqsUpTo(_, _)
SeqsUpTo(S, n) ==
  IF n = 0 THEN {<<>>}
  ELSE LET shorter == SeqsUpTo(S, n - 1)
       IN shorter \cup {Append(s, x) : s \in {t \in shorter : Len(t) = n - 1}, x \in S}

\* ------------------------------------------------------------------------
\* BytesLineDecoder
\* ------------------------------------------------------------------------
\* one call of the reducer callback (lines 54-68): idx is the 0-based index,
\* acc.from the 0-based start of the line being scanned
ReduceStep(text, acc, idx) ==
  IF acc.from > idx THEN acc
  ELSE
    LET cur == text[idx + 1]
        lastIdx == Len(text) - 1
        a1 == IF cur = CR \/ cur = LF
              THEN [lines |-> Append(acc.lines, Subarray(text, acc.from, idx)),
                    from |-> IF cur = CR /\ idx + 2 <= Len(text) /\ text[idx + 2] = LF
                             THEN idx + 2
                             ELSE idx + 1]
              ELSE acc
    IN IF idx = lastIdx /\ a1.from <= lastIdx
       THEN [a1 EXCEPT !.lines = Append(@, Subarray(text, a1.from, Len(text)))]
       ELSE a1

\* text.reduce(callback, {lines: [], from: 0}) (lines 53-69)
RECURSIVE Reduce(_, _, _)
Reduce(text, acc, idx) ==
  IF idx >= Len(text) THEN acc
  ELSE Reduce(text, ReduceStep(text, acc, idx), idx + 1)

SplitLines(text) == Reduce(text, [lines |-> <<>>, from |-> 0], 0).lines

\* lines 41-45: a pending CR is put back in front of the chunk
PrependCrNever(chunk, tcr) == chunk

PrependCr(chunk, tcr) == IF tcr THEN <<CR>> \o chunk ELSE chunk

\* lines 46-49: a CR at the end of the text is held back
\* result: the text to scan and the new trailingCr
HoldCrNever(text) == [text |-> text, trailingCr |-> FALSE]

HoldCr(text) ==
  IF Len(text) > 0 /\ AtLast(text) = CR
  THEN [text |-> Subarray(text, 0, Len(text) - 1), trailingCr |-> TRUE]
  ELSE [text |-> text, trailingCr |-> FALSE]

\* lines 74-78: the buffered pieces are put in front of the first line
MergeBufferDrop(lines, buf) == lines

MergeBuffer(lines, buf) ==
  IF Len(buf) > 0 THEN <<joinArrays(Append(buf, lines[1]))>> \o Tail(lines) ELSE lines

\* lines 79-82: an unterminated last line is kept, the others are enqueued
KeepLastNever(lines, trailingNewline) == [buffer |-> <<>>, out |-> lines]

KeepLastAlways(lines, trailingNewline) ==
  IF Len(lines) > 0
  THEN [buffer |-> <<lines[Len(lines)]>>, out |-> SubSeq(lines, 1, Len(lines) - 1)]
  ELSE [buffer |-> <<>>, out |-> lines]

KeepLast(lines, trailingNewline) ==
  IF ~trailingNewline
  THEN IF Len(lines) > 0
       THEN [buffer |-> <<lines[Len(lines)]>>, out |-> SubSeq(lines, 1, Len(lines) - 1)]
       ELSE [buffer |-> <<>>, out |-> lines]
  ELSE [buffer |-> <<>>, out |-> lines]

\* lines 70-82: what is buffered and what is enqueued, given the split lines
Distribute(lines, trailingNewline, buf) ==
  IF Len(lines) = 1 /\ ~trailingNewline
  THEN [buffer |-> Append(buf, lines[1]), out |-> <<>>]
  ELSE KeepLast(MergeBuffer(lines, buf), trailingNewline)

\* BytesLineDecoder.transform (lines 40-83)
\* result: the new buffer, the new trailingCr and the lines enqueued
\* lines 50-82, held being the text to scan and the new trailingCr
ScanText(held, buf) ==
  IF Len(held.text) = 0
  THEN [buffer |-> buf, trailingCr |-> held.trailingCr, out |-> <<>>]
  ELSE [trailingCr |-> held.trailingCr] @@
       Distribute(SplitLines(held.text), AtLast(held.text) \in TRAILING_NEWLINE, buf)

LineTransform(chunk, buf, tcr) == ScanText(HoldCr(PrependCr(chunk, tcr)), buf)

\* BytesLineDecoder.flush (lines 84-86): the lines enqueued
LineFlushNothing(buf) == <<>>

LineFlush(buf) == IF Len(buf) > 0 THEN <<joinArrays(buf)>> ELSE <<>>

\* ------------------------------------------------------------------------
\* Strings, TextDecoder, Number.parseInt, JSON.parse
\* ------------------------------------------------------------------------
\* code points of the characters the model's lines are written with
Ch == [a |-> 97, b |-> 98, d |-> 100, e |-> 101, f |-> 102, i |-> 105,
       j |-> 106, l |-> 108, n |-> 110, o |-> 111, r |-> 114, s |-> 115,
       t |-> 116, u |-> 117, v |-> 118, x |-> 120, y |-> 121,
       d0 |-> 48, d1 |-> 49, d2 |-> 50, d9 |-> 57,
       quote |-> 34, comma |-> 44, minus |-> 45, plus |-> 43, slash |-> 47,
       lbrace |-> 123, rbrace |-> 125]

Digits == 48..57

\* the replacement character a TextDecoder produces for a byte that is not
\* part of a well-formed UTF-8 sequence
REPLACEMENT == 65533

\* decoder.decode(bytes) for a utf-8 TextDecoder: an ASCII byte decodes to
\* the code point of the same number; the model has no multi-byte sequences,
\* so every other byte is malformed and decodes to U+FFFD
Decode(bytes) ==
  [k \in 1..Len(bytes) |-> IF bytes[k] < 128 THEN bytes[k] ELSE REPLACEMENT]

\* chunk.indexOf(x): 0-based index of the first x, or -1
IndexOf(arr, x) ==
  IF \E k \in 1..Len(arr) : arr[k] = x
  THEN (CHOOSE k \in 1..Len(arr) : arr[k] = x /\ \A m \in 1..(k - 1) : arr[m] # x) - 1
  ELSE -1

RECURSIVE SkipWs(_, _)
SkipWs(s, p) == IF p <= Len(s) /\ s[p] = SPACE THEN SkipWs(s, p + 1) ELSE p

\* value of the run of decimal digits that starts at p, and the position after it
RECURSIVE DigitRun(_, _, _)
DigitRun(s, p, acc) ==
  IF p <= Len(s) /\ s[p] \in Digits
  THEN DigitRun(s, p + 1, acc * 10 + (s[p] - 48))
  ELSE [val |-> acc, next |-> p]

\* Number.parseInt(str, 10): leading white space, an optional sign, then the
\* longest run of digits; NaN when there is no digit
ParseInt(str) ==
  LET p0 == SkipWs(str, 1)
      signed == p0 <= Len(str) /\ str[p0] \in {Ch.minus, Ch.plus}
      p1 == IF signed THEN p0 + 1 ELSE p0
      run == DigitRun(str, p1, 0)
  IN IF run.next = p1
     THEN [nan |-> TRUE, val |-> 0]
     ELSE [nan |-> FALSE,
           val |-> IF signed /\ str[p0] = Ch.minus THEN 0 - run.val ELSE run.val]

\* JSON values
JNull == [t |-> "null", n |-> 0, s |-> <<>>, m |-> <<>>]
JBool(b) == [t |-> IF b THEN "true" ELSE "false", n |-> 0, s |-> <<>>, m |-> <<>>]
JNum(n) == [t |-> "num", n |-> n, s |-> <<>>, m |-> <<>>]
JStr(s) == [t |-> "str", n |-> 0, s |-> s, m |-> <<>>]
JObj(m) == [t |-> "obj", n |-> 0, s |-> <<>>, m |-> m]

JFail == [ok |-> FALSE, val |-> JNull, next |-> 0]

StartsAt(s, p, w) == p + Len(w) - 1 <= Len(s) /\ SubSeq(s, p, p + Len(w) - 1) = w

\* a string literal without escapes, opening quote at p
JString(s, p) ==
  IF \E q \in (p + 1)..Len(s) : s[q] = Ch.quote
  THEN LET q == CHOOSE q \in (p + 1)..Len(s) :
                  s[q] = Ch.quote /\ \A k \in (p + 1)..(q - 1) : s[k] # Ch.quote
       IN IF \A k \in (p + 1)..(q - 1) : s[k] >= 32
          THEN [ok |-> TRUE, val |-> JStr(SubSeq(s, p + 1, q - 1)), next |-> q + 1]
          ELSE JFail
  ELSE JFail

\* an integer number: -? (0 | [1-9][0-9]*), not followed by a fraction or an
\* exponent (the model's payloads have neither)
JNumber(s, p) ==
  LET neg == s[p] = Ch.minus
      p1 == IF neg THEN p + 1 ELSE p
      run == DigitRun(s, p1, 0)
  IN IF run.next = p1 THEN JFail
     ELSE IF s[p1] = 48 /\ run.next > p1 + 1 THEN JFail
     ELSE [ok |-> TRUE, val |-> JNum(IF neg THEN 0 - run.val ELSE run.val),
           next |-> run.next]

\* The parser is a pushdown automaton. Its state: the position p, what is
\* expected there (mode), the stack of the objects that are open (each with
\* the members read so far and the key whose value is being read) and the
\* value of the whole text once it is complete.
JStart == [mode |-> "value", p |-> 1, stack |-> <<>>, val |-> JNull]

JError(st) == [st EXCEPT !.mode = "fail"]

\* a value ending before position next is complete: it is the whole text or
\* the value of the pending key of the innermost open object
JComplete(st, v, next) ==
  IF st.stack = <<>>
  THEN [st EXCEPT !.mode = "end", !.p = next, !.val = v]
  ELSE LET top == st.stack[Len(st.stack)]
       IN [st EXCEPT !.mode = "after", !.p = next,
                     !.stack[Len(st.stack)] =
                        [m |-> Append(top.m, [k |-> top.k, v |-> v]), k |-> <<>>]]

\* the innermost open object is closed by the brace at position p
JClose(st, p) ==
  LET top == st.stack[Len(st.stack)]
  IN JComplete([st EXCEPT !.stack = SubSeq(st.stack, 1, Len(st.stack) - 1)],
               JObj(top.m), p + 1)

\* a string or a number was read (r), or was malformed
JScalar(st, r) == IF r.ok THEN JComplete(st, r.val, r.next) ELSE JError(st)

\* a value is expected at p
JStepValue(s, st, p) ==
  IF p > Len(s) THEN JError(st)
  ELSE IF s[p] = Ch.lbrace
       THEN [st EXCEPT !.mode = "key0", !.p = p + 1,
                       !.stack = Append(st.stack, [m |-> <<>>, k |-> <<>>])]
  ELSE IF s[p] = Ch.quote THEN JScalar(st, JString(s, p))
  ELSE IF s[p] = Ch.minus \/ s[p] \in Digits THEN JScalar(st, JNumber(s, p))
  ELSE IF StartsAt(s, p, <<Ch.n, Ch.u, Ch.l, Ch.l>>) THEN JComplete(st, JNull, p + 4)
  ELSE IF StartsAt(s, p, <<Ch.t, Ch.r, Ch.u, Ch.e>>) THEN JComplete(st, JBool(TRUE), p + 4)
  ELSE IF StartsAt(s, p, <<Ch.f, Ch.a, Ch.l, Ch.s, Ch.e>>)
       THEN JComplete(st, JBool(FALSE), p + 5)
  ELSE JError(st)

\* a key was read (r), or was malformed
JKey(st, r) ==
  IF r.ok
  THEN [st EXCEPT !.mode = "colon", !.p = r.next, !.stack[Len(st.stack)].k = r.val.s]
  ELSE JError(st)

\* a key is expected at p
JStepKey(s, st, p) ==
  IF p > Len(s) \/ s[p] # Ch.quote THEN JError(st) ELSE JKey(st, JString(s, p))

\* one step of the parser (objects, strings, integers, true, false, null;
\* anything else is a syntax error)
JStepAt(s, st, p) ==
     IF st.mode = "value" THEN JStepValue(s, st, p)
     ELSE IF st.mode = "key0"
          THEN IF p <= Len(s) /\ s[p] = Ch.rbrace THEN JClose(st, p)
               ELSE JStepKey(s, st, p)
     ELSE IF st.mode = "key" THEN JStepKey(s, st, p)
     ELSE IF st.mode = "colon"
          THEN IF p <= Len(s) /\ s[p] = COLON
               THEN [st EXCEPT !.mode = "value", !.p = p + 1]
               ELSE JError(st)
     ELSE IF st.mode = "after"
          THEN IF p <= Len(s) /\ s[p] = Ch.rbrace THEN JClose(st, p)
               ELSE IF p <= Len(s) /\ s[p] = Ch.comma
                    THEN [st EXCEPT !.mode = "key", !.p = p + 1]
               ELSE JError(st)
     ELSE IF p > Len(s) THEN [st EXCEPT !.mode = "done"]
     ELSE JError(st)

JStep(s, st) == JStepAt(s, st, SkipWs(s, st.p))

RECURSIVE JRun(_, _)
JRun(s, st) == IF st.mode \in {"done", "fail"} THEN st ELSE JRun(s, JStep(s, st))

\* JSON.parse(text): ok is FALSE where JSON.parse throws a SyntaxError
JResult(st) ==
  IF st.mode = "done" THEN [ok |-> TRUE, val |-> st.val] ELSE [ok |-> FALSE, val |-> JNull]

JSONParse(text) == JResult(JRun(text, JStart))

\* decodeArraysToJson (lines 22-30): undef is TRUE where the function
\* returns undefined; thrown is TRUE where an exception leaves the function
\* the try block returned r.val, or JSON.parse threw and the catch block
\* returned undefined
TryCatchNoCatch(r) == [undef |-> FALSE, thrown |-> ~r.ok, val |-> r.val]

TryCatch(r) == [undef |-> ~r.ok, thrown |-> FALSE, val |-> r.val]

decodeArraysToJsonNull(data) ==
  [undef |-> FALSE, thrown |-> FALSE, val |-> JSONParse(Decode(joinArrays(data))).val]

decodeArraysToJson(data) == TryCatch(JSONParse(Decode(joinArrays(data))))

\* ------------------------------------------------------------------------
\* SafeSSEDecoder
\* ------------------------------------------------------------------------
\* the value of `lastEventId || undefined` when lastEventId is empty
Undefined == <<-1>>

\* retry === null is <<>>, a number n is <<n>>
NoRetry == <<>>

STR_event == <<Ch.e, Ch.v, Ch.e, Ch.n, Ch.t>>
STR_data == <<Ch.d, Ch.a, Ch.t, Ch.a>>
STR_id == <<Ch.i, Ch.d>>
STR_retry == <<Ch.r, Ch.e, Ch.t, Ch.r, Ch.y>>

\* the closure variables of SafeSSEDecoder (lines 91-94)
SseInit == [event |-> <<>>, data |-> <<>>, lastEventId |-> <<>>, retry |-> NoRetry]

\* the object enqueued by transform and by flush (lines 103-107, 134-138)
MakeEvent(st, jsonData) ==
  [id |-> IF st.lastEventId # <<>> THEN st.lastEventId ELSE Undefined,
   event |-> st.event,
   data |-> jsonData]

\* line 99: nothing accumulated, the blank line is skipped
NothingAccumulated(st) ==
  st.event = <<>> /\ Len(st.data) = 0 /\ st.lastEventId = <<>> /\ st.retry = NoRetry

\* line 100: the data of the event, null when there was no data line
JsonData(st) ==
  IF Len(st.data) > 0 THEN decodeArraysToJson(st.data)
  ELSE [undef |-> FALSE, thrown |-> FALSE, val |-> JNull]

\* lines 101-113: the event is enqueued unless jsonData (j) is undefined,
\* then event, data and retry are reset
EnqueueAndResetEventOnly(st, j) ==
  IF j.thrown THEN [st |-> st, out |-> <<>>, thrown |-> TRUE]
  ELSE [st |-> [st EXCEPT !.event = <<>>, !.data = <<>>, !.retry = NoRetry],
        out |-> IF ~j.undef /\ st.event # <<>> THEN <<MakeEvent(st, j.val)>> ELSE <<>>,
        thrown |-> FALSE]

EnqueueAndResetAll(st, j) ==
  IF j.thrown THEN [st |-> st, out |-> <<>>, thrown |-> TRUE]
  ELSE [st |-> [st EXCEPT !.event = <<>>, !.data = <<>>, !.retry = NoRetry,
                          !.lastEventId = <<>>],
        out |-> IF ~j.undef THEN <<MakeEvent(st, j.val)>> ELSE <<>>,
        thrown |-> FALSE]

EnqueueAndReset(st, j) ==
  IF j.thrown THEN [st |-> st, out |-> <<>>, thrown |-> TRUE]
  ELSE [st |-> [st EXCEPT !.event = <<>>, !.data = <<>>, !.retry = NoRetry],
        out |-> IF ~j.undef THEN <<MakeEvent(st, j.val)>> ELSE <<>>,
        thrown |-> FALSE]

\* lines 98-114: a blank line
SseDispatch(st) ==
  IF NothingAccumulated(st) THEN [st |-> st, out |-> <<>>, thrown |-> FALSE]
  ELSE EnqueueAndReset(st, JsonData(st))

\* lines 123-125: an id line
SetIdAlways(st, value) == [st EXCEPT !.lastEventId = Decode(value)]

SetId(st, value) ==
  IF IndexOf(value, NULL) = -1 THEN [st EXCEPT !.lastEventId = Decode(value)] ELSE st

\* lines 126-127: a retry line
SetRetry(st, retryNum) ==
  IF ~retryNum.nan THEN [st EXCEPT !.retry = <<retryNum.val>>] ELSE st

\* lines 118-128: the field is stored
StoreField(st, fieldName, value) ==
  IF fieldName = STR_event THEN [st EXCEPT !.event = Decode(value)]
  ELSE IF fieldName = STR_data THEN [st EXCEPT !.data = Append(@, value)]
  ELSE IF fieldName = STR_id THEN SetId(st, value)
  ELSE IF fieldName = STR_retry THEN SetRetry(st, ParseInt(Decode(value)))
  ELSE st

\* line 120: one leading space is dropped
StripSpace(v0) == IF Len(v0) > 0 /\ v0[1] = SPACE THEN Subarray(v0, 1, Len(v0)) ELSE v0

\* lines 116-128: the line is cut at its first colon (0-based sepIdx)
SplitField(chunk, st, sepIdx) ==
  IF sepIdx = -1 THEN st
  ELSE StoreField(st, Decode(Subarray(chunk, 0, sepIdx)),
                  StripSpace(Subarray(chunk, sepIdx + 1, Len(chunk))))

\* lines 115-128: a line that is not blank
SseField(chunk, st) ==
  IF chunk[1] = COLON THEN st ELSE SplitField(chunk, st, IndexOf(chunk, COLON))

\* SafeSSEDecoder.transform (lines 97-129)
\* result: the new closure variables, the events enqueued, and whether an
\* exception left the function
SseTransform(chunk, st) ==
  IF Len(chunk) = 0 THEN SseDispatch(st)
  ELSE [st |-> SseField(chunk, st), out |-> <<>>, thrown |-> FALSE]

\* lines 132-139: the event is enqueued unless jsonData (j) is undefined
EnqueueFinal(st, j) ==
  [out |-> IF ~j.undef /\ ~j.thrown THEN <<MakeEvent(st, j.val)>> ELSE <<>>,
   thrown |-> j.thrown]

\* SafeSSEDecoder.flush (lines 130-141)
SseFlushAlways(st) == EnqueueFinal(st, JsonData(st))

SseFlush(st) ==
  IF st.event # <<>> THEN EnqueueFinal(st, JsonData(st))
  ELSE [out |-> <<>>, thrown |-> FALSE]

\* ------------------------------------------------------------------------
\* getRunMetadataFromResponse
\* ------------------------------------------------------------------------
STR_threads == <<Ch.slash, Ch.t, 104, Ch.r, Ch.e, Ch.a, Ch.d, Ch.s, Ch.slash>>
STR_runs == <<Ch.slash, Ch.r, Ch.u, Ch.n, Ch.s, Ch.slash>>

\* response.headers.get(...) when the header is absent
NoHeader == <<-1>>

NoMatch == [ok |-> FALSE, thread_id |-> Undefined, run_id |-> Undefined]

\* \/runs\/(?<run_id>.+) at position p (1-based): the greedy .+ takes the
\* rest of the text, which must not be empty
MatchRuns(h, p, thread) ==
  IF StartsAt(h, p, STR_runs) /\ p + Len(STR_runs) <= Len(h)
  THEN [ok |-> TRUE, thread_id |-> thread,
        run_id |-> SubSeq(h, p + Len(STR_runs), Len(h))]
  ELSE NoMatch

\* the ends q of a thread_id that starts at p and is followed by a match of
\* \/runs\/(?<run_id>.+)
ThreadEnds(h, p) == {q \in p..Len(h) : MatchRuns(h, q + 1, <<>>).ok}

\* (\/threads\/(?<thread_id>.+))? at position s: the group is tried first,
\* its greedy .+ as long as possible; without it the match is tried at s
MatchWithThread(h, s, ends) ==
  IF StartsAt(h, s, STR_threads) /\ ends # {}
  THEN LET q == CHOOSE q \in ends : \A k \in ends : k <= q
       IN MatchRuns(h, q + 1, SubSeq(h, s + Len(STR_threads), q))
  ELSE MatchRuns(h, s, Undefined)

MatchAt(h, s) == MatchWithThread(h, s, ThreadEnds(h, s + Len(STR_threads)))

\* REGEX_RUN_METADATA.exec(h): the match at the leftmost position that has one
FirstMatch(h, starts) ==
  IF starts = {} THEN NoMatch
  ELSE MatchAt(h, CHOOSE s \in starts : \A k \in starts : s <= k)

RegexExec(h) == FirstMatch(h, {s \in 1..Len(h) : MatchAt(h, s).ok})

\* lines 152-156: the metadata of a match, undefined without a run_id
MetadataOf(m) ==
  IF ~m.ok \/ m.run_id = <<>>
  THEN [defined |-> FALSE, run_id |-> Undefined, thread_id |-> Undefined]
  ELSE [defined |-> TRUE, run_id |-> m.run_id,
        thread_id |-> IF m.thread_id # <<>> THEN m.thread_id ELSE Undefined]

\* getRunMetadataFromResponse (lines 148-157), given the Content-Location
getRunMetadataFromResponse(contentLocation) ==
  IF contentLocation = NoHeader \/ contentLocation = <<>>
  THEN [defined |-> FALSE, run_id |-> Undefined, thread_id |-> Undefined]
  ELSE MetadataOf(RegexExec(contentLocation))

\* line 213: the calls of payload.onRunCreated
RunCreatedCallsAlways(runMetadata) ==
  <<[run_id |-> runMetadata.run_id, thread_id |-> runMetadata.thread_id]>>

RunCreatedCalls(runMetadata) ==
  IF runMetadata.defined
  THEN <<[run_id |-> runMetadata.run_id, thread_id |-> runMetadata.thread_id]>>
  ELSE <<>>

\* ------------------------------------------------------------------------
\* State
\* ------------------------------------------------------------------------
VARIABLES
  input,        \* the bytes of the whole body
  body,         \* the bytes not yet delivered
  buffer,       \* BytesLineDecoder: buffer (a list of arrays)
  trailingCr,   \* BytesLineDecoder: trailingCr
  lineFlushed,  \* BytesLineDecoder.flush has run
  lastChunk,    \* the chunk given to the last BytesLineDecoder.transform
  lastLines,    \* the lines enqueued by the last call of BytesLineDecoder
  preLine,      \* buffer and trailingCr before that call
  linesOut,     \* every line enqueued by BytesLineDecoder so far
  splitCrLf,    \* a chunk boundary fell between a CR and the LF after it
  event,        \* SafeSSEDecoder: event
  data,         \* SafeSSEDecoder: data (a list of arrays)
  lastEventId,  \* SafeSSEDecoder: lastEventId
  retry,        \* SafeSSEDecoder: retry
  sseFlushed,   \* SafeSSEDecoder.flush has run
  sseThrown,    \* an exception left SafeSSEDecoder
  lastOp,       \* the last operation of SafeSSEDecoder: "none", "line", "flush"
  lastLine,     \* the line given to the last SafeSSEDecoder.transform
  lastEvents,   \* the events enqueued by the last call of SafeSSEDecoder
  preSse,       \* the closure variables of SafeSSEDecoder before that call
  eventsOut,    \* every event enqueued by SafeSSEDecoder so far
  nLines,       \* number of lines given to SafeSSEDecoder
  nDropped,     \* number of dispatches whose data did not parse
  keptId,       \* what lastEventId would be had the lines of the dropped
                \* events never arrived: committed at the end of the last
                \* event that was not dropped, pending now
  nulPrior      \* <<p>> when an id line with a NUL arrived since the last
                \* accepted id line and the last blank line, p being
                \* lastEventId before it; <<p, p>> right after the blank
                \* line that followed; <<>> otherwise
VARIABLES
  pc,           \* where the generator of runs.stream is: "idle" (not started),
                \* "fetch" (line 210), "read" (line 228), "yield" (line 230),
                \* "done", "threw", "returned"
  header,       \* the Content-Location the response carries
  runCreated,   \* the arguments of the calls of payload.onRunCreated
  bodyState,    \* response.body: "none", "open", "closed", "errored"
  storedError,  \* the error the piped streams are errored with
  thrown,       \* the exception that left the generator
  lineq,        \* lines enqueued by BytesLineDecoder, not yet transformed
  evq,          \* events enqueued by SafeSSEDecoder, not yet read
  yielded,      \* the events yielded so far
  aborted,      \* payload.signal is aborted
  failed,       \* the transport failed
  acquired,     \* number of calls of stream.getReader()
  released,     \* number of calls of reader.releaseLock()
  chunksRead,   \* number of chunks read from the body (2 stands for 2 or more)
  readAfterAbort,   \* a chunk was read from the body after the abort
  yieldAfterAbort,  \* an event was yielded after the abort
  flushAfterAbort   \* flush enqueued an event after the abort or the failure

lineVars == <<input, body, buffer, trailingCr, lineFlushed, lastChunk, lastLines,
              preLine, linesOut, splitCrLf>>
sseVars == <<event, data, lastEventId, retry, sseFlushed, sseThrown, lastOp,
             lastLine, lastEvents, preSse, eventsOut, nLines, nDropped, keptId,
             nulPrior>>
VARIABLES
  calls,        \* two calls of runs.stream in flight together: for each its
                \* body, its header, what has not arrived, what it has
                \* yielded, its onRunCreated calls, where it is
  decoders      \* the BytesLineDecoder and SafeSSEDecoder instances by the
                \* call that created them
callVars == <<pc, header, runCreated, bodyState, storedError, thrown, lineq, evq,
              yielded, aborted, failed, acquired, released, chunksRead,
              readAfterAbort, yieldAfterAbort, flushAfterAbort>>
pairVars == <<calls, decoders>>
vars == <<lineVars, sseVars, callVars, pairVars>>

\* the closure variables of SafeSSEDecoder as one record
SseState == [event |-> event, data |-> data, lastEventId |-> lastEventId, retry |-> retry]

LineInit ==
  /\ buffer = <<>>
  /\ trailingCr = FALSE
  /\ lineFlushed = FALSE
  /\ lastChunk = <<>>
  /\ lastLines = <<>>
  /\ preLine = [buffer |-> <<>>, trailingCr |-> FALSE]
  /\ linesOut = <<>>
  /\ splitCrLf = FALSE

SseVarsInit ==
  /\ event = SseInit.event
  /\ data = SseInit.data
  /\ lastEventId = SseInit.lastEventId
  /\ retry = SseInit.retry
  /\ sseFlushed = FALSE
  /\ sseThrown = FALSE
  /\ lastOp = "none"
  /\ lastLine = <<>>
  /\ lastEvents = <<>>
  /\ preSse = SseInit
  /\ eventsOut = <<>>
  /\ nLines = 0
  /\ nDropped = 0
  /\ keptId = [committed |-> <<>>, pending |-> <<>>]
  /\ nulPrior = <<>>

CallInit ==
  /\ pc = "idle"
  /\ runCreated = <<>>
  /\ bodyState = "none"
  /\ storedError = "none"
  /\ thrown = "none"
  /\ lineq = <<>>
  /\ evq = <<>>
  /\ yielded = <<>>
  /\ aborted = FALSE
  /\ failed = FALSE
  /\ acquired = 0
  /\ released = 0
  /\ chunksRead = 0
  /\ readAfterAbort = FALSE
  /\ yieldAfterAbort = FALSE
  /\ flushAfterAbort = FALSE

\* the two calls of the concurrent specification
CallIds == {1, 2}

\* lines 33-34 and 91-94: the closure variables of a new BytesLineDecoder
\* and of a new SafeSSEDecoder
NewDecoders == [buffer |-> <<>>, trailingCr |-> FALSE, sse |-> SseInit]

\* no concurrent call is running
PairIdle ==
  /\ calls = [c \in CallIds |-> [input |-> <<>>, header |-> NoHeader, body |-> <<>>,
                                  yielded |-> <<>>, runCreated |-> <<>>, at |-> "idle",
                                  mixed |-> FALSE]]
  /\ decoders = [c \in CallIds |-> NewDecoders]

\* ------------------------------------------------------------------------
\* BytesLineDecoder alone: every byte sequence, every chunking
\* ------------------------------------------------------------------------
LineBytes == {CR, LF, Ch.a, Ch.b}

\* the decoder variables after transform(chunk), r being its result
LineCommit(chunk, r) ==
  /\ buffer' = r.buffer
  /\ trailingCr' = r.trailingCr
  /\ lastChunk' = chunk
  /\ lastLines' = r.out
  /\ preLine' = [buffer |-> buffer, trailingCr |-> trailingCr]
  /\ linesOut' = linesOut \o r.out
  /\ splitCrLf' = (splitCrLf \/ (/\ Len(chunk) > 0
                                 /\ chunk[1] = LF
                                 /\ Len(body) < Len(input)
                                 /\ input[Len(input) - Len(body)] = CR))

LineApply(chunk) == LineCommit(chunk, LineTransform(chunk, buffer, trailingCr))

\* the next n bytes of the body arrive as one chunk
LFeed ==
  /\ ~lineFlushed
  /\ \E n \in 0..Len(body) :
       /\ LineApply(SubSeq(body, 1, n))
       /\ body' = SubSeq(body, n + 1, Len(body))
  /\ UNCHANGED <<pairVars, input, lineFlushed, sseVars, callVars>>

\* the body ends: flush
LFlush ==
  /\ ~lineFlushed
  /\ body = <<>>
  /\ lineFlushed' = TRUE
  /\ lastLines' = LineFlush(buffer)
  /\ linesOut' = linesOut \o LineFlush(buffer)
  /\ preLine' = [buffer |-> buffer, trailingCr |-> trailingCr]
  /\ UNCHANGED <<pairVars, input, body, buffer, trailingCr, lastChunk, splitCrLf, sseVars, callVars>>

LInit ==
  /\ header = NoHeader
  /\ input \in SeqsUpTo(LineBytes, MaxLen)
  /\ body = input
  /\ LineInit
  /\ SseVarsInit
  /\ CallInit
  /\ PairIdle

LNext == LFeed \/ LFlush

LineSpec == LInit /\ [][LNext]_vars

\* ------------------------------------------------------------------------
\* SafeSSEDecoder alone: every sequence of lines
\* ------------------------------------------------------------------------
FieldLine(name, value) == name \o <<COLON, SPACE>> \o value

V_foo == <<Ch.f, Ch.o, Ch.o>>
V_bar == <<Ch.b, Ch.a, Ch.r>>
V_one == <<Ch.d1>>
V_two == <<Ch.d2>>
V_notjson == <<Ch.n, Ch.o, Ch.t, Ch.minus, Ch.j, Ch.s, Ch.o, Ch.n>>
V_obj == <<Ch.lbrace, Ch.quote, Ch.a, Ch.quote, COLON, Ch.d1, Ch.rbrace>>

BlankLine == <<>>
L_event_foo == FieldLine(STR_event, V_foo)
L_event_bar == FieldLine(STR_event, V_bar)
L_data_one == FieldLine(STR_data, V_one)
L_data_two == FieldLine(STR_data, V_two)
L_data_obj == FieldLine(STR_data, V_obj)
L_data_notjson == FieldLine(STR_data, V_notjson)
L_id_x == FieldLine(STR_id, <<Ch.x>>)
L_id_y == FieldLine(STR_id, <<Ch.y>>)
L_id_nul == FieldLine(STR_id, <<Ch.y, NULL>>)
L_id_nul_only == STR_id \o <<COLON, NULL>>
L_retry_nine == FieldLine(STR_retry, <<Ch.d9>>)
L_retry_x == FieldLine(STR_retry, <<Ch.x>>)
L_retry_nine_x == FieldLine(STR_retry, <<Ch.d9, Ch.x>>)
L_comment == <<COLON, Ch.x>>
L_nocolon == <<Ch.d, Ch.a, Ch.t, Ch.a>>
L_unknown == FieldLine(<<Ch.f, Ch.o, Ch.o>>, V_one)

\* id lines whose value has a NUL byte, and id lines whose value has none
NulIdLines == {L_id_nul, L_id_nul_only}
PlainIdLines == {L_id_x, L_id_y}

SseLines == {BlankLine, L_event_foo, L_event_bar, L_data_one, L_data_two,
             L_data_obj, L_data_notjson, L_retry_nine, L_retry_x, L_retry_nine_x,
             L_comment, L_nocolon, L_unknown} \cup NulIdLines \cup PlainIdLines

\* the decoder variables after transform(line), r being its result
SseCommit(line, r) ==
  /\ event' = r.st.event
  /\ data' = r.st.data
  /\ lastEventId' = r.st.lastEventId
  /\ retry' = r.st.retry
  /\ sseThrown' = r.thrown
  /\ lastOp' = "line"
  /\ lastLine' = line
  /\ lastEvents' = r.out
  /\ preSse' = SseState
  /\ eventsOut' = eventsOut \o r.out
  /\ nLines' = nLines + 1
  /\ nDropped' = IF line = BlankLine /\ ~NothingAccumulated(SseState) /\ r.out = <<>>
                 THEN nDropped + 1 ELSE nDropped
  /\ keptId' = IF line \in PlainIdLines
               THEN [keptId EXCEPT !.pending = r.st.lastEventId]
               ELSE IF line # BlankLine THEN keptId
               ELSE IF ~NothingAccumulated(SseState) /\ r.out = <<>>
               THEN [keptId EXCEPT !.pending = keptId.committed]
               ELSE [keptId EXCEPT !.committed = keptId.pending]
  /\ nulPrior' = IF line \in NulIdLines
                 THEN (IF Len(nulPrior) = 1 THEN nulPrior ELSE <<lastEventId>>)
                 ELSE IF line \in PlainIdLines \/ Len(nulPrior) # 1 THEN <<>>
                 ELSE IF line = BlankLine THEN nulPrior \o nulPrior
                 ELSE nulPrior
  /\ UNCHANGED sseFlushed

SseApply(line) == SseCommit(line, SseTransform(line, SseState))

\* the decoder variables after flush(), r being its result
SseCommitFlush(r) ==
  /\ sseFlushed' = TRUE
  /\ sseThrown' = r.thrown
  /\ lastOp' = "flush"
  /\ lastEvents' = r.out
  /\ preSse' = SseState
  /\ eventsOut' = eventsOut \o r.out
  /\ UNCHANGED <<event, data, lastEventId, retry, lastLine, nLines, nDropped, keptId,
                 nulPrior>>

SseApplyFlush == SseCommitFlush(SseFlush(SseState))

\* one line arrives
SFeed ==
  /\ ~sseFlushed
  /\ ~sseThrown
  /\ nLines < MaxLines
  /\ \E line \in SseLines : SseApply(line)
  /\ UNCHANGED <<pairVars, lineVars, callVars>>

\* the stream of lines ends
SFlush ==
  /\ ~sseFlushed
  /\ ~sseThrown
  /\ SseApplyFlush
  /\ UNCHANGED <<pairVars, lineVars, callVars>>

SInit ==
  /\ header = NoHeader
  /\ input = <<>>
  /\ body = <<>>
  /\ LineInit
  /\ SseVarsInit
  /\ CallInit
  /\ PairIdle

SNext == SFeed \/ SFlush

SseSpec == SInit /\ [][SNext]_vars

\* ------------------------------------------------------------------------
\* runs.stream: one call, its response, the two piped decoders, the consumer
\* ------------------------------------------------------------------------
\* lines joined by the terminator term, with a final terminator when fin
RECURSIVE JoinLines(_, _, _)
JoinLines(lines, term, fin) ==
  IF lines = <<>> THEN <<>>
  ELSE IF Len(lines) = 1 THEN lines[1] \o (IF fin THEN term ELSE <<>>)
  ELSE lines[1] \o term \o JoinLines(Tail(lines), term, fin)

TerminatorStyles == {<<LF>>, <<CR>>, <<CR, LF>>}

\* field lines without the optional space
K_event_f == STR_event \o <<COLON, Ch.f>>
K_event_b == STR_event \o <<COLON, Ch.b>>
K_data_one == STR_data \o <<COLON>> \o V_one
K_data_two == STR_data \o <<COLON>> \o V_two

\* a first event, ended by a blank line
FirstEvents == {<<K_event_f, K_data_one, BlankLine>>, <<K_data_one, BlankLine>>}
\* a second event, without its blank line
SecondEvents == {<<K_event_b, K_data_two>>, <<K_event_b>>, <<K_data_two>>}

TwoEvents(e1, e2, term, fin) == JoinLines(e1 \o e2, term, fin)

TwoEventStreams ==
  {TwoEvents(e1, e2, term, fin) :
     e1 \in FirstEvents, e2 \in SecondEvents, term \in TerminatorStyles, fin \in BOOLEAN}

\* data: {"a":1} LF LF
OneDataStream == JoinLines(<<L_data_obj, BlankLine>>, <<LF>>, TRUE)

\* event: foo / data: 1 without a final terminator
UnterminatedStreams ==
  {JoinLines(<<L_event_foo, L_data_one>>, term, FALSE) : term \in TerminatorStyles}

\* data:1 and its blank line, the body ending right after the terminator
TerminatedStreams ==
  {JoinLines(<<K_data_one, BlankLine>>, term, TRUE) : term \in TerminatorStyles}

Streams ==
  TwoEventStreams \cup UnterminatedStreams \cup TerminatedStreams \cup {OneDataStream, <<>>}

H_abc == <<Ch.a, Ch.b, 99>>
H_xyz == <<Ch.x, Ch.y, 122>>
H_threads_runs == STR_threads \o H_abc \o STR_runs \o H_xyz
H_runs == STR_runs \o H_xyz
H_prefixed == <<104>> \o H_threads_runs

\* headers that match, and headers that do not
MatchingHeaders == {H_threads_runs, H_runs, H_prefixed}
OtherHeaders == {NoHeader, <<>>, STR_threads \o H_abc, STR_runs, H_xyz}
Headers == MatchingHeaders \cup OtherHeaders

\* the calls of the model: a body and the Content-Location of its response;
\* the code reads the header before it touches the body and never again, so
\* the bodies are run with one header and the headers with one body
Calls ==
  {<<s, H_threads_runs>> : s \in Streams} \cup {<<OneDataStream, h>> : h \in Headers}

\* the call is in flight
InFlight == pc \in {"fetch", "read", "yield"}

\* the piped streams still move chunks (the consumer has not seen their end)
Piping == pc \in {"read", "yield", "returned"}

\* lines 172-210: the generator starts and awaits the response
Start ==
  /\ pc = "idle"
  /\ pc' = "fetch"
  /\ UNCHANGED <<pairVars, lineVars, sseVars, header, runCreated, bodyState, storedError, thrown,
                 lineq, evq, yielded, aborted, failed, acquired, released, chunksRead,
                 readAfterAbort, yieldAfterAbort, flushAfterAbort>>

\* lines 210-225: the response arrives; onRunCreated, the pipes, the reader
FetchOk ==
  /\ pc = "fetch"
  /\ runCreated' = runCreated \o RunCreatedCalls(getRunMetadataFromResponse(header))
  /\ bodyState' = "open"
  /\ acquired' = acquired + 1
  /\ pc' = "read"
  /\ UNCHANGED <<pairVars, lineVars, sseVars, header, storedError, thrown, lineq, evq, yielded, aborted,
                 failed, released, chunksRead, readAfterAbort, yieldAfterAbort,
                 flushAfterAbort>>

\* line 210: the request fails (no connection, a status that is not 2xx)
FetchFail ==
  /\ pc = "fetch"
  /\ pc' = "threw"
  /\ thrown' = "TransportError"
  /\ failed' = TRUE
  /\ UNCHANGED <<pairVars, lineVars, sseVars, header, runCreated, bodyState, storedError, lineq,
                 evq, yielded, aborted, acquired, released, chunksRead, readAfterAbort,
                 yieldAfterAbort, flushAfterAbort>>

\* line 221: the first pipe reads the next n bytes of the body as one chunk
\* and BytesLineDecoder transforms it; it does so when the lines of the
\* chunk before have been taken
PipeChunk(r) ==
  /\ buffer' = r.buffer
  /\ trailingCr' = r.trailingCr
  /\ lineq' = lineq \o r.out

ReadChunk ==
  /\ Piping
  /\ bodyState = "open"
  /\ lineq = <<>>
  /\ \E n \in 0..Len(body) :
       /\ PipeChunk(LineTransform(SubSeq(body, 1, n), buffer, trailingCr))
       /\ body' = SubSeq(body, n + 1, Len(body))
  /\ chunksRead' = IF chunksRead < 2 THEN chunksRead + 1 ELSE chunksRead
  /\ readAfterAbort' = (readAfterAbort \/ aborted)
  /\ UNCHANGED <<pairVars, input, lineFlushed, lastChunk, lastLines, preLine, linesOut, splitCrLf,
                 sseVars, pc, header, runCreated, bodyState, storedError, thrown, evq,
                 yielded, aborted, failed, acquired, released, yieldAfterAbort,
                 flushAfterAbort>>

\* the body ends: the first pipe closes BytesLineDecoder, which flushes
BodyClose ==
  /\ Piping
  /\ bodyState = "open"
  /\ body = <<>>
  /\ bodyState' = "closed"
  /\ lineFlushed' = TRUE
  /\ lineq' = lineq \o LineFlush(buffer)
  /\ UNCHANGED <<pairVars, input, body, buffer, trailingCr, lastChunk, lastLines, preLine, linesOut,
                 splitCrLf, sseVars, pc, header, runCreated, storedError, thrown, evq,
                 yielded, aborted, failed, acquired, released, chunksRead, readAfterAbort,
                 yieldAfterAbort, flushAfterAbort>>

\* line 222: the second pipe hands the next line to SafeSSEDecoder, when the
\* event before has been taken
SseStep ==
  /\ Piping
  /\ bodyState \in {"open", "closed"}
  /\ lineq # <<>>
  /\ evq = <<>>
  /\ ~sseFlushed
  /\ SseApply(Head(lineq))
  /\ lineq' = Tail(lineq)
  /\ evq' = evq \o lastEvents'
  /\ UNCHANGED <<pairVars, lineVars, pc, header, runCreated, bodyState, storedError, thrown,
                 yielded, aborted, failed, acquired, released, chunksRead, readAfterAbort,
                 yieldAfterAbort, flushAfterAbort>>

\* the lines end: the second pipe closes SafeSSEDecoder, which flushes
SseClose ==
  /\ Piping
  /\ bodyState = "closed"
  /\ lineq = <<>>
  /\ ~sseFlushed
  /\ SseApplyFlush
  /\ evq' = evq \o lastEvents'
  /\ flushAfterAbort' = (flushAfterAbort \/ ((aborted \/ failed) /\ lastEvents' # <<>>))
  /\ UNCHANGED <<pairVars, lineVars, pc, header, runCreated, bodyState, storedError, thrown, lineq,
                 yielded, aborted, failed, acquired, released, chunksRead, readAfterAbort,
                 yieldAfterAbort>>

\* lines 228-230: reader.read() delivers an event and the generator yields it
Pull ==
  /\ pc = "read"
  /\ bodyState \in {"open", "closed"}
  /\ evq # <<>>
  /\ yielded' = Append(yielded, Head(evq))
  /\ evq' = Tail(evq)
  /\ pc' = "yield"
  /\ yieldAfterAbort' = (yieldAfterAbort \/ aborted)
  /\ UNCHANGED <<pairVars, lineVars, sseVars, header, runCreated, bodyState, storedError, thrown,
                 lineq, aborted, failed, acquired, released, chunksRead, readAfterAbort,
                 flushAfterAbort>>

\* the consumer asks for the next event: back to line 228
Resume ==
  /\ pc = "yield"
  /\ pc' = "read"
  /\ UNCHANGED <<pairVars, lineVars, sseVars, header, runCreated, bodyState, storedError, thrown,
                 lineq, evq, yielded, aborted, failed, acquired, released, chunksRead,
                 readAfterAbort, yieldAfterAbort, flushAfterAbort>>

\* lines 229, 232-234: reader.read() reports done; finally releases the lock
Finish ==
  /\ pc = "read"
  /\ bodyState = "closed"
  /\ sseFlushed
  /\ evq = <<>>
  /\ released' = released + 1
  /\ pc' = "done"
  /\ UNCHANGED <<pairVars, lineVars, sseVars, header, runCreated, bodyState, storedError, thrown,
                 lineq, evq, yielded, aborted, failed, acquired, chunksRead,
                 readAfterAbort, yieldAfterAbort, flushAfterAbort>>

\* lines 228, 232-234: reader.read() rejects with the error of the stream;
\* finally releases the lock and the error leaves the generator
Throw ==
  /\ pc = "read"
  /\ bodyState = "errored"
  /\ released' = released + 1
  /\ pc' = "threw"
  /\ thrown' = storedError
  /\ UNCHANGED <<pairVars, lineVars, sseVars, header, runCreated, bodyState, storedError, lineq,
                 evq, yielded, aborted, failed, acquired, chunksRead, readAfterAbort,
                 yieldAfterAbort, flushAfterAbort>>

\* lines 230, 232-234: the consumer ends the iteration at the yield
\* (return()); finally releases the lock; nothing cancels the stream
Return ==
  /\ pc = "yield"
  /\ released' = released + 1
  /\ pc' = "returned"
  /\ UNCHANGED <<pairVars, lineVars, sseVars, header, runCreated, bodyState, storedError, thrown,
                 lineq, evq, yielded, aborted, failed, acquired, chunksRead,
                 readAfterAbort, yieldAfterAbort, flushAfterAbort>>

\* what the abort of the signal given to fetch (line 204) does: a pending
\* fetch rejects; a body that is still open is errored, and the error runs
\* down the pipes, which drop what they hold; a body that has ended is left
\* alone, and nothing else in the generator looks at the signal
AbortEffect ==
  IF pc = "fetch"
  THEN /\ pc' = "threw"
       /\ thrown' = "AbortError"
       /\ UNCHANGED <<bodyState, storedError, lineq, evq>>
  ELSE IF bodyState = "open"
  THEN /\ bodyState' = "errored"
       /\ storedError' = "AbortError"
       /\ lineq' = <<>>
       /\ evq' = <<>>
       /\ UNCHANGED <<pc, thrown>>
  ELSE UNCHANGED <<pc, thrown, bodyState, storedError, lineq, evq>>

\* the caller aborts payload.signal
Abort ==
  /\ InFlight
  /\ ~aborted
  /\ aborted' = TRUE
  /\ AbortEffect
  /\ UNCHANGED <<pairVars, lineVars, sseVars, header, runCreated, yielded, failed, acquired,
                 released, chunksRead, readAfterAbort, yieldAfterAbort, flushAfterAbort>>

\* the connection drops while the body is read
TransportFail ==
  /\ pc \in {"read", "yield"}
  /\ bodyState = "open"
  /\ bodyState' = "errored"
  /\ storedError' = "TransportError"
  /\ failed' = TRUE
  /\ lineq' = <<>>
  /\ evq' = <<>>
  /\ UNCHANGED <<pairVars, lineVars, sseVars, pc, header, runCreated, thrown, yielded, aborted,
                 acquired, released, chunksRead, readAfterAbort, yieldAfterAbort,
                 flushAfterAbort>>

Init ==
  /\ \E c \in Calls :
       /\ input = c[1]
       /\ header = c[2]
  /\ body = input
  /\ LineInit
  /\ SseVarsInit
  /\ CallInit
  /\ PairIdle

Next ==
  \/ Start
  \/ FetchOk
  \/ FetchFail
  \/ ReadChunk
  \/ BodyClose
  \/ SseStep
  \/ SseClose
  \/ Pull
  \/ Resume
  \/ Finish
  \/ Throw
  \/ Return
  \/ Abort
  \/ TransportFail

Spec == Init /\ [][Next]_vars

\* ------------------------------------------------------------------------
\* Two calls of runs.stream in flight together
\* ------------------------------------------------------------------------
\* lines 221-222: BytesLineDecoder() and SafeSSEDecoder() are called by the
\* call, so the decoders a call pipes its body through are its own
DecoderShared(c) == 1

DecoderOf(c) == c

\* the state and the events after one more line
Accumulate(acc, r) == [st |-> r.st, out |-> acc.out \o r.out]

\* line 222: the lines go through SafeSSEDecoder.transform one by one
RECURSIVE FeedLines(_, _)
FeedLines(lines, acc) ==
  IF lines = <<>> THEN acc
  ELSE FeedLines(Tail(lines), Accumulate(acc, SseTransform(Head(lines), acc.st)))

WithFed(r, fed) ==
  [dec |-> [buffer |-> r.buffer, trailingCr |-> r.trailingCr, sse |-> fed.st],
   out |-> fed.out]

AfterLines(r, d) == WithFed(r, FeedLines(r.out, [st |-> d.sse, out |-> <<>>]))

\* lines 221-222: a chunk goes through the decoders d; the decoders after
\* it and the events enqueued
PipeBytes(chunk, d) == AfterLines(LineTransform(chunk, d.buffer, d.trailingCr), d)

PipeEndFed(fed) == fed.out \o SseFlush(fed.st).out

\* lines 221-222: the body ends; both flushes, and the events enqueued
PipeEnd(d) == PipeEndFed(FeedLines(LineFlush(d.buffer), [st |-> d.sse, out |-> <<>>]))

K_id_x == STR_id \o <<COLON, Ch.x>>

\* the bodies of the two calls: an id and LF, CR LF, and a bare CR with an
\* unterminated last event
P_id_lf == JoinLines(<<K_id_x, K_data_one, BlankLine>>, <<LF>>, TRUE)
P_crlf == JoinLines(<<K_event_b, K_data_two, BlankLine>>, <<CR, LF>>, TRUE)
P_cr == TwoEvents(<<K_data_one, BlankLine>>, <<K_event_b>>, <<CR>>, FALSE)
PairStreams == {P_id_lf, P_crlf, P_cr}

\* the sizes of the chunks the bodies of the two calls arrive in (the rest
\* of the body is a chunk too): they cut lines, and CR LF between CR and LF
PairChunks == {3, 4}

\* the Content-Location of the response of each call
PairHeader == [c \in CallIds |-> IF c = 1 THEN H_threads_runs ELSE H_runs]

\* the other call is in the middle of its body
OtherMidBody(c) ==
  \E o \in CallIds \ {c} :
    /\ calls[o].at = "read"
    /\ calls[o].body # <<>>
    /\ calls[o].body # calls[o].input

\* lines 210-225: the response of call c arrives; onRunCreated, new decoders
PStart(c) ==
  /\ calls[c].at = "idle"
  /\ calls' = [calls EXCEPT
                ![c].at = "read",
                ![c].runCreated = RunCreatedCalls(getRunMetadataFromResponse(calls[c].header))]
  /\ decoders' = [decoders EXCEPT ![DecoderOf(c)] = NewDecoders]
  /\ UNCHANGED <<lineVars, sseVars, callVars>>

\* call c after a chunk of n bytes, r being what its decoders made of it
PApply(c, n, r) ==
  /\ decoders' = [decoders EXCEPT ![DecoderOf(c)] = r.dec]
  /\ calls' = [calls EXCEPT
                ![c].body = SubSeq(@, n + 1, Len(@)),
                ![c].yielded = @ \o r.out,
                ![c].mixed = @ \/ OtherMidBody(c)]

\* lines 226-230: the next n bytes of the body of call c arrive and the
\* events decoded from them are yielded
PChunk(c) ==
  /\ calls[c].at = "read"
  /\ \E n \in {k \in 1..Len(calls[c].body) : k \in PairChunks \/ k = Len(calls[c].body)} :
       PApply(c, n, PipeBytes(SubSeq(calls[c].body, 1, n), decoders[DecoderOf(c)]))
  /\ UNCHANGED <<lineVars, sseVars, callVars>>

\* lines 226-234: the body of call c ends; the flushes, the last events
PClose(c) ==
  /\ calls[c].at = "read"
  /\ calls[c].body = <<>>
  /\ calls' = [calls EXCEPT
                ![c].at = "done",
                ![c].yielded = @ \o PipeEnd(decoders[DecoderOf(c)])]
  /\ UNCHANGED <<lineVars, sseVars, callVars, decoders>>

PInit ==
  /\ header = NoHeader
  /\ input = <<>>
  /\ body = <<>>
  /\ LineInit
  /\ SseVarsInit
  /\ CallInit
  /\ \E f \in [CallIds -> PairStreams] :
       calls = [c \in CallIds |->
                  [input |-> f[c], header |-> PairHeader[c], body |-> f[c],
                   yielded |-> <<>>, runCreated |-> <<>>, at |-> "idle", mixed |-> FALSE]]
  /\ decoders = [c \in CallIds |-> NewDecoders]

PNext == \E c \in CallIds : PStart(c) \/ PChunk(c) \/ PClose(c)

PairSpec == PInit /\ [][PNext]_vars

\* ------------------------------------------------------------------------
\* Properties of BytesLineDecoder (checked under LineSpec)
\* ------------------------------------------------------------------------
\* the whole input given to a fresh decoder as a single chunk
OneChunk(in) == LineTransform(in, <<>>, FALSE)

EndsWithTerminator(s) == Len(s) > 0 /\ AtLast(s) \in {CR, LF}

\* C1: however the byte sequence is cut into chunks (also between the CR and
\* the LF of a pair), once all chunks are fed the decoder has enqueued exactly
\* the lines, in the same order, that it enqueues when the whole sequence is
\* fed as one chunk, and it is left with the same pending bytes and the same
\* pending CR; the same holds after flush.
SameAs(r) ==
  /\ linesOut = r.out \o (IF lineFlushed THEN LineFlush(r.buffer) ELSE <<>>)
  /\ joinArrays(buffer) = joinArrays(r.buffer)
  /\ trailingCr = r.trailingCr

C1_ChunkingInvariant == body = <<>> => SameAs(OneChunk(input))

\* a sequence of terminated lines, cut between a CR and its LF, fully fed
C1_Witness ==
  /\ body = <<>>
  /\ splitCrLf
  /\ EndsWithTerminator(input)
  /\ Len(linesOut) >= 2
  /\ linesOut[1] # <<>>

Terminators == {<<CR>>, <<LF>>, <<CR, LF>>}

\* C9 as stated: an empty chunk enqueues nothing, and a chunk that is exactly
\* one terminator enqueues exactly one line while it is processed, an empty
\* one when no bytes were pending.
C9_AsStated ==
  ~lineFlushed =>
    /\ lastChunk = <<>> => lastLines = <<>>
    /\ lastChunk \in Terminators =>
         /\ Len(lastLines) = 1
         /\ preLine.buffer = <<>> => lastLines[1] = <<>>

\* C9 amended: an empty chunk enqueues nothing; a chunk that is exactly LF
\* enqueues exactly one line; a chunk that is exactly CR LF enqueues one
\* line, and one more when a bare CR was pending from the previous chunk; a
\* chunk that is exactly CR enqueues no line of its own while it is
\* processed (the CR is held back as pending) and enqueues only the line of a
\* bare CR pending from the previous chunk; the first line enqueued is empty
\* when no bytes were pending.
C9_TerminatorChunks ==
  ~lineFlushed =>
    /\ lastChunk = <<>> => lastLines = <<>>
    /\ lastChunk = <<LF>> => Len(lastLines) = 1
    /\ lastChunk = <<CR, LF>> => Len(lastLines) = IF preLine.trailingCr THEN 2 ELSE 1
    /\ lastChunk = <<CR>> =>
         /\ Len(lastLines) = IF preLine.trailingCr THEN 1 ELSE 0
         /\ trailingCr
    /\ (lastChunk \in Terminators /\ lastLines # <<>> /\ preLine.buffer = <<>>) =>
         lastLines[1] = <<>>

\* a chunk that is exactly CR arrived while bytes, and no CR, were pending
C9_Witness ==
  /\ ~lineFlushed
  /\ lastChunk = <<CR>>
  /\ ~preLine.trailingCr
  /\ preLine.buffer # <<>>
  /\ lastLines = <<>>

\* ------------------------------------------------------------------------
\* Properties of SafeSSEDecoder (checked under SseSpec)
\* ------------------------------------------------------------------------
\* the last operation was transform on a blank line
AfterBlankLine == lastOp = "line" /\ lastLine = BlankLine

SomethingSet(st) ==
  st.event # <<>> \/ st.data # <<>> \/ st.lastEventId # <<>> \/ st.retry # NoRetry

\* the text JSON.parse is given at dispatch
DataText(st) == Decode(joinArrays(st.data))

IdOrUndefined(id) == IF id = <<>> THEN Undefined ELSE id

\* C3: a dispatch whose accumulated data is not JSON enqueues no event,
\* raises nothing and resets the event; the decoder keeps working, and a
\* later dispatch of well-formed data enqueues its event.
C3_BadJsonDropped ==
  /\ ~sseThrown
  /\ (AfterBlankLine /\ preSse.data # <<>> /\ ~JSONParse(DataText(preSse)).ok) =>
       /\ lastEvents = <<>>
       /\ event = <<>> /\ data = <<>> /\ retry = NoRetry
  /\ (AfterBlankLine /\ nDropped > 0 /\ preSse.data # <<>> /\ JSONParse(DataText(preSse)).ok) =>
       /\ Len(lastEvents) = 1
       /\ lastEvents[1].event = preSse.event
       /\ lastEvents[1].data = JSONParse(DataText(preSse)).val

\* an event with bad data was dropped and a later event was enqueued
C3_Witness ==
  /\ AfterBlankLine
  /\ nDropped > 0
  /\ Len(eventsOut) = 1
  /\ lastEvents = eventsOut
  /\ lastEvents[1].data = JNum(1)

\* C5: an id line whose value has a NUL byte changes no closure variable and
\* enqueues nothing, and the event of the next dispatch carries the id that
\* was current before that line (no id when there was none).
C5_NulIdIgnored ==
  /\ [](lastOp = "line" /\ lastLine \in NulIdLines =>
          /\ SseState = preSse
          /\ lastEvents = <<>>)
  /\ [][(Len(nulPrior) = 1 /\ lastOp' = "line" /\ lastLine' = BlankLine /\ lastEvents' # <<>>) =>
          lastEvents'[1].id = IdOrUndefined(nulPrior[1])]_vars

\* an id line with a NUL arrived after an accepted id line, and the event
\* of the dispatch that followed carries the accepted id
C5_Witness ==
  /\ AfterBlankLine
  /\ Len(nulPrior) = 2
  /\ lastEvents # <<>>
  /\ lastEvents[1].id = <<Ch.x>>

\* C8 as stated: a blank line enqueues an event only if the accumulated
\* event type is not empty, and resets event, data and retry.
C8_AsStated ==
  AfterBlankLine =>
    /\ lastEvents # <<>> => preSse.event # <<>>
    /\ event = <<>> /\ data = <<>> /\ retry = NoRetry

\* C8 amended: a blank line enqueues an event exactly when at least one of
\* event, data, lastEventId, retry is set and the accumulated data, if any,
\* parses as JSON (the event type may be empty); after every blank line
\* event, data and retry are reset.
C8_BlankLineDispatch ==
  AfterBlankLine =>
    /\ Len(lastEvents) <= 1
    /\ lastEvents # <<>> <=>
         /\ SomethingSet(preSse)
         /\ (preSse.data = <<>> \/ JSONParse(DataText(preSse)).ok)
    /\ event = <<>> /\ data = <<>> /\ retry = NoRetry

\* a blank line enqueued an event whose type is empty
C8_Witness ==
  /\ AfterBlankLine
  /\ lastEvents # <<>>
  /\ lastEvents[1].event = <<>>
  /\ preSse.data # <<>>

\* ------------------------------------------------------------------------
\* Properties of the streaming call (checked under Spec)
\* ------------------------------------------------------------------------
NoId(type, json) == [id |-> Undefined, event |-> type, data |-> json]

\* C2: the body  data: {"a":1} LF LF , delivered whole or cut anywhere,
\* yields exactly one event: no id, the empty event type, the parsed object.
C2_OneDataEvent ==
  input = OneDataStream =>
    /\ Len(eventsOut) <= 1
    /\ pc = "done" =>
         yielded = <<NoId(<<>>, JObj(<<[k |-> <<Ch.a>>, v |-> JNum(1)]>>))>>

\* the body arrived in two chunks or more and the call completed
C2_Witness ==
  /\ input = OneDataStream
  /\ pc = "done"
  /\ chunksRead = 2
  /\ Len(yielded) = 1

\* the two-event bodies by the shape of their events
StreamsOf(firsts, seconds) ==
  {TwoEvents(e1, e2, term, fin) :
     e1 \in firsts, e2 \in seconds, term \in TerminatorStyles, fin \in BOOLEAN}

FirstTyped == StreamsOf({<<K_event_f, K_data_one, BlankLine>>}, SecondEvents)
SecondTypedData == StreamsOf(FirstEvents, {<<K_event_b, K_data_two>>})
SecondUntyped == StreamsOf(FirstEvents, {<<K_data_two>>})

ExpectedFirst ==
  IF input \in FirstTyped THEN NoId(<<Ch.f>>, JNum(1)) ELSE NoId(<<>>, JNum(1))

ExpectedSecond ==
  IF input \in SecondTypedData THEN NoId(<<Ch.b>>, JNum(2)) ELSE NoId(<<Ch.b>>, JNull)

\* C4 as stated: two events separated by a blank line, the second without
\* its blank line: when the call completes two events were yielded, the
\* second one enqueued by flush.
C4_AsStated ==
  (input \in TwoEventStreams /\ pc = "done") =>
    /\ Len(yielded) = 2
    /\ lastOp = "flush"
    /\ Len(lastEvents) = 1

\* C4 amended: two events separated by a blank line, the second without its
\* blank line: when the second event has an event type, the call yields
\* exactly two events, the first enqueued at its blank line and the second
\* by flush; when the second event has no event type, flush enqueues
\* nothing and only the first event is yielded.
C4_FlushRecoversTyped ==
  (input \in TwoEventStreams /\ pc = "done") =>
    /\ lastOp = "flush"
    /\ input \notin SecondUntyped =>
         /\ yielded = <<ExpectedFirst, ExpectedSecond>>
         /\ lastEvents = <<ExpectedSecond>>
    /\ input \in SecondUntyped =>
         /\ yielded = <<ExpectedFirst>>
         /\ lastEvents = <<>>

\* a completed call whose second event, ended by a bare CR, came from flush
C4_Witness ==
  /\ input = TwoEvents(<<K_data_one, BlankLine>>, <<K_event_b, K_data_two>>, <<CR>>, TRUE)
  /\ pc = "done"
  /\ chunksRead = 2
  /\ Len(yielded) = 2
  /\ lastEvents = <<NoId(<<Ch.b>>, JNum(2))>>

\* the calls of onRunCreated a response with the header h must cause
ExpectedCalls(h) ==
  IF h \in {H_threads_runs, H_prefixed} THEN <<[run_id |-> H_xyz, thread_id |-> H_abc]>>
  ELSE IF h = H_runs THEN <<[run_id |-> H_xyz, thread_id |-> Undefined]>>
  ELSE <<>>

\* C6: until the response has arrived onRunCreated is not called and no
\* event is yielded; from then on it has been called exactly once, with the
\* run_id and the thread_id of the header (no thread_id when the header has
\* no thread segment), or never when the header is missing or does not match.
C6_RunCreatedOnce ==
  IF acquired = 0
  THEN runCreated = <<>> /\ yielded = <<>>
  ELSE runCreated = ExpectedCalls(header)

\* an event was yielded after the single call for a header without a thread
C6_Witness ==
  /\ header = H_runs
  /\ yielded # <<>>
  /\ runCreated = <<[run_id |-> H_xyz, thread_id |-> Undefined]>>

Terminal == {"done", "threw", "returned"}

\* C7 as stated: after the abort no chunk is read from the body and no event
\* is yielded, and a call that has ended has released the reader it
\* acquired exactly once.
C7_AsStated ==
  /\ ~readAfterAbort
  /\ ~yieldAfterAbort
  /\ released <= acquired
  /\ (pc \in Terminal /\ acquired = 1) => released = 1

\* C10 as stated: after a transport failure the call does not complete
\* normally but throws the failure; a call that throws after an abort alone
\* throws the abort error, not a failure; and flush enqueues no event out of
\* the accumulated fields after the abort or the failure.
C10_AsStated ==
  /\ (failed /\ ~aborted /\ pc \in {"done", "threw"}) =>
       pc = "threw" /\ thrown = "TransportError"
  /\ (aborted /\ ~failed /\ pc = "threw") => thrown = "AbortError"
  /\ ~flushAfterAbort

\* the bodies whose last line has no terminator, and that line
Unterminated ==
  UnterminatedStreams \cup
  {TwoEvents(e1, e2, term, FALSE) :
     e1 \in FirstEvents, e2 \in SecondEvents, term \in TerminatorStyles}

TrailingLine ==
  IF input \in UnterminatedStreams THEN L_data_one
  ELSE IF input \in SecondTypedData \cup SecondUntyped THEN K_data_two
  ELSE K_event_b

\* C11: when a body whose last line has no terminator has completed, that
\* line was the last line SafeSSEDecoder.transform processed, the flush of
\* SafeSSEDecoder ran after it, and the last event yielded carries the
\* field of that line: event: foo / data: 1 yields the event foo with data 1.
C11_TrailingLineBeforeFlush ==
  (input \in Unterminated /\ pc = "done") =>
    /\ lineFlushed /\ sseFlushed
    /\ lastLine = TrailingLine
    /\ lastOp = "flush"
    /\ input \in UnterminatedStreams => yielded = <<NoId(V_foo, JNum(1))>>
    /\ input \in SecondTypedData =>
         yielded[Len(yielded)] = NoId(<<Ch.b>>, JNum(2))

\* event: foo / data: 1 arrived in two chunks or more and the call completed
C11_Witness ==
  /\ input = JoinLines(<<L_event_foo, L_data_one>>, <<LF>>, FALSE)
  /\ pc = "done"
  /\ chunksRead = 2
  /\ lastLine = L_data_one
  /\ yielded = <<NoId(V_foo, JNum(1))>>

\* the two-event bodies by their events and their terminator
TwoEventShapes ==
  [e1 : FirstEvents, e2 : SecondEvents, term : TerminatorStyles, fin : BOOLEAN]

ShapeOf ==
  [s \in TwoEventStreams |->
     CHOOSE sh \in TwoEventShapes : TwoEvents(sh.e1, sh.e2, sh.term, sh.fin) = s]

\* the number of bytes up to the last byte of the first blank line
BlankLineEnd ==
  [s \in TwoEventStreams |-> Len(JoinLines(ShapeOf[s].e1, ShapeOf[s].term, TRUE))]

\* the bytes of the body that have arrived
Delivered == Len(input) - Len(body)

\* the chunks that have arrived have been processed by both decoders, and
\* the chunk with the last byte of the first blank line is among them
FirstBlankLineProcessed ==
  /\ input \in TwoEventStreams
  /\ bodyState \in {"open", "closed"}
  /\ lineq = <<>>
  /\ Delivered >= BlankLineEnd[input]

\* the first event is in the consumer's hands or waits for its next pull
FirstEventAvailable ==
  /\ yielded \o evq # <<>>
  /\ (yielded \o evq)[1] = ExpectedFirst

\* C12 as stated: once the chunk with the last byte of the blank line that
\* ends an event has been processed, the event is available to the consumer
\* without a later chunk or the end of the stream, for \r, \n and \r\n.
C12_AsStated == FirstBlankLineProcessed => FirstEventAvailable

\* C12 amended: events reach the consumer in the order they were decoded;
\* with \n or \r\n as terminator the event is available once the chunk with
\* the last byte of its blank line has been processed; with a bare \r it is
\* not available then, and becomes available once a later byte of the body
\* has been processed.
C12_ImmediateUnlessBareCr ==
  /\ bodyState \in {"open", "closed"} => yielded \o evq = eventsOut
  /\ (FirstBlankLineProcessed /\ ShapeOf[input].term # <<CR>>) => FirstEventAvailable
  /\ (FirstBlankLineProcessed /\ ShapeOf[input].term = <<CR>>) =>
       IF Delivered = BlankLineEnd[input]
       THEN eventsOut = <<>>
       ELSE FirstEventAvailable

\* the consumer holds the first event while the rest of the body has not arrived
C12_Witness ==
  /\ input \in TwoEventStreams
  /\ ShapeOf[input].term = <<CR, LF>>
  /\ bodyState = "open"
  /\ Delivered = BlankLineEnd[input]
  /\ yielded = <<ExpectedFirst>>

\* ------------------------------------------------------------------------
\* More properties of SafeSSEDecoder (checked under SseSpec)
\* ------------------------------------------------------------------------
\* the values of the data lines in arrival order, a line separator after
\* each but the last
RECURSIVE JoinSeparated(_)
JoinSeparated(arrs) ==
  IF arrs = <<>> THEN <<>>
  ELSE IF Len(arrs) = 1 THEN arrs[1]
  ELSE arrs[1] \o <<LF>> \o JoinSeparated(Tail(arrs))

SeparatedText(st) == Decode(JoinSeparated(st.data))

\* C13 as stated: every data line is appended to the data accumulated so
\* far, and the event of a dispatch carries the JSON value of the values of
\* the data lines in arrival order, a line separator between them (no event
\* when that text is not JSON).
C13_AsStated ==
  /\ (lastOp = "line" /\ StartsAt(lastLine, 1, STR_data \o <<COLON>>)) =>
       /\ Len(data) = Len(preSse.data) + 1
       /\ SubSeq(data, 1, Len(preSse.data)) = preSse.data
  /\ (AfterBlankLine /\ preSse.data # <<>>) =>
       lastEvents = IF JSONParse(SeparatedText(preSse)).ok
                    THEN <<[id |-> IdOrUndefined(preSse.lastEventId),
                            event |-> preSse.event,
                            data |-> JSONParse(SeparatedText(preSse)).val]>>
                    ELSE <<>>

\* comments, lines without a colon, lines of an unknown field, and retry
\* lines whose value is not an integer
IgnoredLines == {L_comment, L_nocolon, L_unknown, L_retry_x, L_retry_nine_x}

\* C14 as stated: a comment, a line without a colon, a line of an unknown
\* field and a retry line whose value is not an integer enqueue no event
\* and change none of event, data, lastEventId, retry.
C14_AsStated ==
  (lastOp = "line" /\ lastLine \in IgnoredLines) =>
    /\ lastEvents = <<>>
    /\ SseState = preSse

\* C15: a blank line enqueues at most one event and leaves event, data and
\* retry empty and lastEventId as it was; lastEventId is the value of the
\* last id line without NUL and no other line changes it; every event
\* enqueued carries lastEventId as its id.
C15_IdPersists ==
  /\ AfterBlankLine =>
       /\ Len(lastEvents) <= 1
       /\ event = <<>> /\ data = <<>> /\ retry = NoRetry
       /\ lastEventId = preSse.lastEventId
  /\ (lastOp = "line" /\ lastLine = L_id_x) => lastEventId = <<Ch.x>>
  /\ (lastOp = "line" /\ lastLine = L_id_y) => lastEventId = <<Ch.y>>
  /\ (lastOp = "flush" \/ (lastOp = "line" /\ lastLine \notin PlainIdLines)) =>
       lastEventId = preSse.lastEventId
  /\ \A k \in 1..Len(lastEvents) : lastEvents[k].id = IdOrUndefined(lastEventId)

\* two events were enqueued after one id line and both carry its id
C15_Witness ==
  /\ lastOp = "flush"
  /\ eventsOut = <<[id |-> <<Ch.x>>, event |-> <<>>, data |-> JNum(1)],
                   [id |-> <<Ch.x>>, event |-> V_foo, data |-> JNull]>>

\* the blank line just processed dropped an event whose data is not JSON
DroppedNow ==
  /\ AfterBlankLine
  /\ preSse.data # <<>>
  /\ ~JSONParse(DataText(preSse)).ok

\* C16 as stated: a dropped event leaves nothing behind: every event
\* enqueued carries the id it would carry had the lines of the dropped
\* events never arrived.
C16_AsStated ==
  /\ DroppedNow =>
       /\ lastEvents = <<>>
       /\ event = <<>> /\ data = <<>> /\ retry = NoRetry
  /\ \A k \in 1..Len(lastEvents) : lastEvents[k].id = IdOrUndefined(keptId.pending)

\* C16 amended: a dispatch whose data is not JSON enqueues nothing and
\* resets the type, the data and the retry of the dropped event, so none of
\* them appears in a later event; an id line without NUL inside the dropped
\* event has replaced lastEventId, which the drop leaves alone: the events
\* enqueued afterwards carry that id.
C16_DropKeepsId ==
  /\ DroppedNow =>
       /\ lastEvents = <<>>
       /\ event = <<>> /\ data = <<>> /\ retry = NoRetry
       /\ lastEventId = preSse.lastEventId
  /\ (lastOp = "line" /\ lastLine \in PlainIdLines) => lastEventId = keptId.pending
  /\ \A k \in 1..Len(lastEvents) :
       /\ lastEvents[k].id = IdOrUndefined(preSse.lastEventId)
       /\ lastEvents[k].event = preSse.event
       /\ preSse.data = <<>> => lastEvents[k].data = JNull

\* after an event with an id line was dropped, the event of the next lines
\* carries the id of the dropped event
C16_Witness ==
  /\ lastOp = "flush"
  /\ nDropped = 1
  /\ keptId.pending = <<>>
  /\ eventsOut = <<[id |-> <<Ch.x>>, event |-> V_foo, data |-> JNull]>>

\* C18 as stated: a blank line that finds no event type, no data and no
\* retry accumulated enqueues no event, whatever lastEventId is.
C18_AsStated ==
  (AfterBlankLine /\ preSse.event = <<>> /\ preSse.data = <<>> /\ preSse.retry = NoRetry) =>
    lastEvents = <<>>

\* ------------------------------------------------------------------------
\* More properties of BytesLineDecoder (checked under LineSpec)
\* ------------------------------------------------------------------------
\* the lines of s that a terminator (CR LF, CR or LF) ends, and the bytes
\* after the last terminator, scanning from position p
RECURSIVE Framed(_, _, _, _)
Framed(s, p, cur, lines) ==
  IF p > Len(s) THEN [lines |-> lines, tail |-> cur]
  ELSE IF s[p] = LF THEN Framed(s, p + 1, <<>>, Append(lines, cur))
  ELSE IF s[p] = CR
  THEN Framed(s, IF p + 1 <= Len(s) /\ s[p + 1] = LF THEN p + 2 ELSE p + 1,
              <<>>, Append(lines, cur))
  ELSE Framed(s, p + 1, Append(cur, s[p]), lines)

\* the bytes that have arrived, without the CR the decoder holds back
Arrived == SubSeq(input, 1, Len(input) - Len(body))
Scanned == IF trailingCr THEN SubSeq(Arrived, 1, Len(Arrived) - 1) ELSE Arrived

NoTerminatorIn(s) == \A k \in 1..Len(s) : s[k] \notin {CR, LF}

\* C20: no line enqueued by transform or flush has a CR or LF byte; the
\* buffer is empty or holds at least one byte and no CR or LF byte; until
\* flush the lines enqueued are the terminated lines of the bytes scanned
\* and the buffer holds the bytes after the last terminator, which only
\* flush enqueues.
C20_BufferHoldsTail ==
  /\ \A k \in 1..Len(linesOut) : NoTerminatorIn(linesOut[k])
  /\ buffer # <<>> => joinArrays(buffer) # <<>>
  /\ NoTerminatorIn(joinArrays(buffer))
  /\ trailingCr => (Arrived # <<>> /\ AtLast(Arrived) = CR)
  /\ joinArrays(buffer) = Framed(Scanned, 1, <<>>, <<>>).tail
  /\ ~lineFlushed => linesOut = Framed(Scanned, 1, <<>>, <<>>).lines
  /\ lineFlushed =>
       linesOut = Framed(Scanned, 1, <<>>, <<>>).lines \o
                  (IF buffer # <<>> THEN <<joinArrays(buffer)>> ELSE <<>>)

\* bytes without a terminator wait in the buffer after a line was enqueued
C20_Witness ==
  /\ ~lineFlushed
  /\ Len(linesOut) = 2
  /\ Len(buffer) = 2
  /\ splitCrLf

\* ------------------------------------------------------------------------
\* More properties of the streaming call (checked under Spec)
\* ------------------------------------------------------------------------
\* C19 as stated: the events a completed call has yielded are those of the
\* lines of the body, whichever of \r, \n and \r\n ends the lines, also when
\* the body ends right after a terminator.
C19_AsStated ==
  pc = "done" =>
    /\ input \in TerminatedStreams => yielded = <<NoId(<<>>, JNum(1))>>
    /\ input \in UnterminatedStreams => yielded = <<NoId(V_foo, JNum(1))>>
    /\ input \in SecondUntyped => yielded = <<ExpectedFirst>>
    /\ input \in TwoEventStreams \ SecondUntyped =>
         yielded = <<ExpectedFirst, ExpectedSecond>>

\* ------------------------------------------------------------------------
\* Properties of two calls in flight together (checked under PairSpec)
\* ------------------------------------------------------------------------
\* the events each body yields when its call runs alone
PairExpected ==
  [s \in PairStreams |->
     IF s = P_id_lf THEN <<[id |-> <<Ch.x>>, event |-> <<>>, data |-> JNum(1)]>>
     ELSE IF s = P_crlf THEN <<NoId(<<Ch.b>>, JNum(2))>>
     ELSE <<NoId(<<>>, JNum(1)), NoId(<<Ch.b>>, JNull)>>]

IsPrefix(s, t) == Len(s) <= Len(t) /\ s = SubSeq(t, 1, Len(s))

\* the events and the onRunCreated calls of a call that runs alone, from
\* the start of the body to its end
RunAloneEnd(r) == r.out \o PipeEnd(r.dec)
RunAlone(in) == RunAloneEnd(PipeBytes(in, NewDecoders))

\* C17: however the chunks of two calls interleave, each call yields the
\* events, and makes the onRunCreated call, of its own body and header:
\* what it would yield running alone.
C17_CallsIndependent ==
  \A c \in CallIds :
    /\ IsPrefix(calls[c].yielded, PairExpected[calls[c].input])
    /\ calls[c].at = "done" =>
         /\ calls[c].yielded = PairExpected[calls[c].input]
         /\ calls[c].yielded = RunAlone(calls[c].input)
    /\ calls[c].runCreated =
         IF calls[c].at = "idle" THEN <<>> ELSE ExpectedCalls(calls[c].header)

\* both calls completed, each having received chunks while the other was in
\* the middle of its body
C17_Witness ==
  /\ calls[1].at = "done" /\ calls[2].at = "done"
  /\ calls[1].mixed /\ calls[2].mixed
  /\ calls[1].input = P_cr /\ calls[2].input = P_crlf

====
